---- MODULE Spec2Model ----
(***************************************************************************)
(* Model of the vocab-stack request handlers (src/app.py): the Vocab       *)
(* table, keyset pagination (get_page), search (search_db), the /vocabs    *)
(* router, the create / edit / delete / bulk-delete handlers and the       *)
(* archive job handlers.                                                   *)
(*                                                                         *)
(* Strings are sequences of one-character strings, so that icontains and   *)
(* exact-match uniqueness are computed and not assumed.  An Optional value *)
(* is a sequence of length 0 (None) or 1 (<<v>>).  Scores are small        *)
(* naturals standing for the floats of zipf_frequency.                     *)
(***************************************************************************)
EXTENDS Naturals, Sequences, FiniteSets

\* db        the rows of the vocab table
\* req, resp the last request (or background event) handled and its response
\* pre       the table as the last request found it
\* emitted, trav, insKind
\*           the rows a client walking the listing has been given so far,
\*           where its walk stands, and what was created during the walk
\* archiver  the process-wide archive job; writers: snapshot writes in
\*           flight; produced: snapshot files written; was: archiver and
\*           writers as the last archive request found them; seen: the job
\*           status each client was last shown
VARIABLES db, req, resp, pre, emitted, trav, insKind,
          archiver, writers, produced, was, seen

vars == <<db, req, resp, pre, emitted, trav, insKind,
          archiver, writers, produced, was, seen>>

pageVars == <<emitted, trav, insKind>>

archVars == <<archiver, writers, produced, was, seen>>

tableVars == <<db, pre>>

\* ---------------------------------------------------- constant and bounds
PAGE_SIZE == 5

MaxPageRows == 6

MaxFreq == 1

MaxId == 2

MaxBulk == 3

MaxArchives == 2

\* ------------------------------------------------------------- primitives
None == <<>>

Some(v) == <<v>>

SeqToSet(s) == {s[i] : i \in DOMAIN s}

Max(S) == CHOOSE m \in S : \A o \in S : o <= m

Lower(c) == IF c = "A" THEN "a" ELSE IF c = "B" THEN "b" ELSE c

LowerStr(s) == [i \in DOMAIN s |-> Lower(s[i])]

\* col.icontains(term): lower(col) LIKE '%' || lower(term) || '%';
\* a NULL column never matches.
IContains(field, term) ==
    /\ field # None
    /\ LET f == LowerStr(field[1])
           t == LowerStr(term)
       IN  \E i \in 0..Len(f) :
               /\ i + Len(t) <= Len(f)
               /\ SubSeq(f, i + 1, i + Len(t)) = t

\* zipf = partial(zipf_frequency, lang=LANG): an external pure scorer.  Its
\* stand-in counts the letters a/A of the word, so that distinct words can
\* tie and can differ.
Zipf(w) == Cardinality({i \in DOMAIN w : Lower(w[i]) = "a"})

\* ------------------------------------------------------------ Vocab table
Vocab(i, w, c, s, f) ==
    [id |-> i, word |-> w, context |-> c, source |-> s, freq |-> f]

Ids(S) == {r.id : r \in S}

Get(S, i) == IF i \in Ids(S) THEN Some(CHOOSE r \in S : r.id = i) ELSE None

\* INTEGER PRIMARY KEY without AUTOINCREMENT: largest rowid in use plus one.
NextId(S) == IF S = {} THEN 1 ELSE Max(Ids(S)) + 1

\* mutant: the word column without its UNIQUE index
UniqueViolationOff(S) == FALSE

\* word: str = Field(unique=True): the UNIQUE index rejects a second row
\* with exactly the same word.
UniqueViolation(S) ==
    \E a \in S : \E b \in S :
        a.id # b.id /\ a.word # None /\ a.word = b.word

\* word and freq are NOT NULL columns.
NotNullViolation(S) ==
    \E r \in S : r.word = None \/ r.freq = None

\* session.commit(): the flush fails on a constraint violation and nothing
\* of the transaction reaches the table.
CommitOk(S) == ~UniqueViolation(S) /\ ~NotNullViolation(S)

\* ---------------------------------------------------------------- get_page
\* ORDER BY vocab.freq DESC, vocab.id  (the id key is ascending)
PageBefore(a, b) ==
    \/ a.freq[1] > b.freq[1]
    \/ a.freq[1] = b.freq[1] /\ a.id < b.id

RECURSIVE PageOrder(_)
PageOrder(S) ==
    IF S = {} THEN << >>
    ELSE LET first == CHOOSE r \in S : \A o \in S \ {r} : PageBefore(r, o)
         IN  <<first>> \o PageOrder(S \ {first})

\* WHERE freq < last_freq OR (freq = last_freq AND id < last_id)
CursorPred(r, cursor) ==
    \/ r.freq[1] < cursor[1]
    \/ r.freq[1] = cursor[1] /\ r.id < cursor[2]

Where(S, cursor) ==
    IF cursor # None THEN {r \in S : CursorPred(r, cursor[1])} ELSE S

Limit(s, n) == IF Len(s) > n THEN SubSeq(s, 1, n) ELSE s

\* mutant: the query limited to PAGE_SIZE rows, without the look-ahead row
get_page_no_lookahead(S, cursor) ==
    LET results  == Limit(PageOrder(Where(S, cursor)), PAGE_SIZE)
        has_more == Len(results) > PAGE_SIZE
        page     == Limit(results, PAGE_SIZE)
    IN  [vocabs |-> page, has_more |-> has_more]

get_page(S, cursor) ==
    LET results  == Limit(PageOrder(Where(S, cursor)), PAGE_SIZE + 1)
        has_more == Len(results) > PAGE_SIZE
        page     == Limit(results, PAGE_SIZE)
    IN  [vocabs |-> page, has_more |-> has_more]

\* --------------------------------------------------------------- responses
\* What a handler hands back: the status code, the template (or body kind),
\* and the template context entries 'vocab', 'vocabs' and 'has_more'.
Response(status, view) ==
    [status |-> status, view |-> view, vocab |-> None, vocabs |-> << >>,
     has_more |-> FALSE]

Result(S, r) == [db |-> S, resp |-> r]

\* --------------------------------------------------------------- search_db
Matches(S, term) ==
    {r \in S : \/ IContains(r.word, term)
               \/ IContains(r.context, term)
               \/ IContains(r.source, term)}

\* ORDER BY vocab.freq DESC alone: rows of equal freq come in an order the
\* database is free to choose, so every such order is a possible result.
RECURSIVE FreqDescOrders(_)
FreqDescOrders(S) ==
    IF S = {} THEN {<< >>}
    ELSE UNION {{<<r>> \o t : t \in FreqDescOrders(S \ {r})} :
                   r \in {x \in S : \A o \in S : x.freq[1] >= o.freq[1]}}

search_db(S, term) == FreqDescOrders(Matches(S, term))

\* mutant: the load-more branch tested before the search term
vocabs_trigger_first(S, q, trigger, cursor) ==
    IF trigger = "load-more" /\ cursor # None
    THEN LET context == get_page(S, cursor)
         IN  {[Response(200, "vocab_rows")
                 EXCEPT !.vocabs = context.vocabs,
                        !.has_more = context.has_more]}
    ELSE IF q # None
    THEN {[Response(200, IF trigger = "search" THEN "vocab_rows"
                                                ELSE "index")
             EXCEPT !.vocabs = v, !.has_more = FALSE] :
          v \in search_db(S, q[1])}
    ELSE LET context == get_page(S, None)
         IN  {[Response(200, "index")
                 EXCEPT !.vocabs = context.vocabs,
                        !.has_more = context.has_more]}

\* ------------------------------------------------------------------ vocabs
\* GET /vocabs.  q: Optional search term; trigger: the HX-Trigger header;
\* cursor: None when last_freq / last_id are missing, else <<(freq, id)>>.
vocabs(S, q, trigger, cursor) ==
    IF q # None
    THEN {[Response(200, IF trigger = "search" THEN "vocab_rows"
                                                ELSE "index")
             EXCEPT !.vocabs = v, !.has_more = FALSE] :
          v \in search_db(S, q[1])}
    ELSE IF trigger = "load-more"
    THEN IF cursor = None
         THEN {Response(500, "error")}
         ELSE LET context == get_page(S, cursor)
              IN  {[Response(200, "vocab_rows")
                      EXCEPT !.vocabs = context.vocabs,
                             !.has_more = context.has_more]}
    ELSE LET context == get_page(S, None)
         IN  {[Response(200, "index")
                 EXCEPT !.vocabs = context.vocabs,
                        !.has_more = context.has_more]}

\* --------------------------------------------------------- vocabs_new_post
\* A form field is None when the key is absent and Some(text) otherwise.
Truthy(v) == v # None /\ v[1] # << >>

Keep(v) == IF Truthy(v) THEN v ELSE None

\* new_fields keeps the non-empty form values; freq is set from the word
\* when there is one; the row is added and committed, and any failure of the
\* commit is rolled back and answered with the form again.
vocabs_new_post(S, form) ==
    LET word      == Keep(form.word)
        freq      == IF word # None THEN Some(Zipf(word[1])) ELSE None
        new_vocab == Vocab(NextId(S), word, Keep(form.context),
                           Keep(form.source), freq)
    IN  IF CommitOk(S \cup {new_vocab})
        THEN Result(S \cup {new_vocab}, Response(303, "redirect"))
        ELSE Result(S, [Response(200, "new") EXCEPT !.vocab = Some(new_vocab)])

\* ------------------------------------------------ vocabs_view and edit_get
vocabs_view(S, vid) ==
    Result(S, [Response(200, "show") EXCEPT !.vocab = Get(S, vid)])

vocabs_edit_get(S, vid) ==
    Result(S, [Response(200, "edit") EXCEPT !.vocab = Get(S, vid)])

\* -------------------------------------------------------- vocabs_edit_post
\* sqlmodel_update(fields): every key present that is a field of the model
\* is assigned; here word, context, source and freq.
Pick(new, old) == IF new # None THEN new ELSE old

\* edit_fields holds every key of the form.  freq is recomputed only when
\* the word differs from the stored one; otherwise a freq key of the form,
\* if any, is what sqlmodel_update assigns.
vocabs_edit_post(S, vocab_id, form) ==
    LET got == Get(S, vocab_id)
    IN  IF got = None THEN Result(S, Response(404, "Vocab not found"))
        ELSE IF form.word = None THEN Result(S, Response(500, "error"))
        ELSE LET db_vocab == got[1]
                 freq     == IF db_vocab.word # form.word
                             THEN Some(Zipf(form.word[1]))
                             ELSE form.freq
                 updated  == Vocab(db_vocab.id, form.word,
                                   Pick(form.context, db_vocab.context),
                                   Pick(form.source, db_vocab.source),
                                   Pick(freq, db_vocab.freq))
                 T        == (S \ {db_vocab}) \cup {updated}
             IN  IF CommitOk(T)
                 THEN Result(T, Response(303, "redirect"))
                 ELSE Result(S, [Response(200, "edit")
                                   EXCEPT !.vocab = Some(db_vocab)])

\* ----------------------------------------------------------- vocabs_delete
vocabs_delete(S, vid, trigger) ==
    LET v == Get(S, vid)
    IN  IF v = None THEN Result(S, Response(404, "Vocab not found"))
        ELSE Result(S \ {v[1]},
                    IF trigger = "delete-btn" THEN Response(303, "redirect")
                                              ELSE Response(200, "text"))

\* ------------------------------------------------------ vocabs_delete_bulk
\* One get / delete / commit per id, in request order; the first id that is
\* not found raises, and the deletions committed before it stay.
RECURSIVE DeleteEach(_, _)
DeleteEach(S, vocab_ids) ==
    IF vocab_ids = << >> THEN [db |-> S, found |-> TRUE]
    ELSE LET vocab == Get(S, Head(vocab_ids))
         IN  IF vocab = None THEN [db |-> S, found |-> FALSE]
             ELSE DeleteEach(S \ {vocab[1]}, Tail(vocab_ids))

\* mutant: one commit after the loop, so that a missing id undoes the
\* deletions made before it
vocabs_delete_bulk_one_commit(S, vocab_ids) ==
    LET done == DeleteEach(S, vocab_ids)
    IN  IF ~done.found THEN Result(S, Response(404, "Vocab not found"))
        ELSE LET context == get_page(done.db, None)
             IN  Result(done.db, [Response(200, "index")
                                    EXCEPT !.vocabs = context.vocabs,
                                           !.has_more = context.has_more])

vocabs_delete_bulk(S, vocab_ids) ==
    LET done == DeleteEach(S, vocab_ids)
    IN  IF ~done.found THEN Result(done.db, Response(404, "Vocab not found"))
        ELSE LET context == get_page(done.db, None)
             IN  Result(done.db, [Response(200, "index")
                                    EXCEPT !.vocabs = context.vocabs,
                                           !.has_more = context.has_more])

\* ------------------------------------------------------------ JSON handlers
\* body: None when the bytes do not validate against the request model, else
\* Some(fields), each field None when unset.  VocabCreate requires word.
json_vocabs_new(S, body) ==
    IF body = None \/ body[1].word = None
    THEN Result(S, Response(400, "json error"))
    ELSE LET new       == body[1]
             new_vocab == Vocab(NextId(S), new.word, new.context, new.source,
                                Some(Zipf(new.word[1])))
         IN  IF CommitOk(S \cup {new_vocab})
             THEN Result(S \cup {new_vocab},
                         [Response(200, "json") EXCEPT !.vocab = Some(new_vocab)])
             ELSE Result(S, Response(500, "error"))

json_vocabs_view(S, vid) ==
    LET v == Get(S, vid)
    IN  IF v = None THEN Result(S, Response(500, "error"))
        ELSE Result(S, [Response(200, "json") EXCEPT !.vocab = v])

json_vocabs_edit(S, vocab_id, body) ==
    IF body = None THEN Result(S, Response(400, "json error"))
    ELSE LET got == Get(S, vocab_id)
         IN  IF got = None THEN Result(S, Response(404, "Vocab not found"))
             ELSE LET db_vocab == got[1]
                      update   == body[1]
                      freq     == IF update.word # None
                                  THEN Some(Zipf(update.word[1]))
                                  ELSE None
                      updated  == Vocab(db_vocab.id,
                                        Pick(update.word, db_vocab.word),
                                        Pick(update.context, db_vocab.context),
                                        Pick(update.source, db_vocab.source),
                                        Pick(freq, db_vocab.freq))
                      T        == (S \ {db_vocab}) \cup {updated}
                  IN  IF CommitOk(T)
                      THEN Result(T, [Response(200, "json")
                                        EXCEPT !.vocab = Some(updated)])
                      ELSE Result(S, Response(500, "error"))

\* ----------------------------------------------------------------- Archiver
\* The Archiver class lives in archiver_mock, outside src/; it is modelled
\* from the specification of the Archive Job Controller: idle -> running ->
\* done, start a no-op unless idle, reset clearing post-completion state
\* without interrupting a write in flight.
Archiver(state, file) == [state |-> state, file |-> file]

\* mutant: run() without the idle check
ArchiverRunUnchecked(a) ==
    [archiver |-> Archiver("running", None), spawn |-> 1]

\* run(): the idle check and the move to running are one step; spawn is the
\* number of snapshot writes the call begins.
ArchiverRun(a) ==
    IF a.state = "idle"
    THEN [archiver |-> Archiver("running", None), spawn |-> 1]
    ELSE [archiver |-> a, spawn |-> 0]

\* the snapshot write that run() began has finished with output file f.
ArchiverFinish(a, f) ==
    IF a.state = "running" THEN Archiver("done", Some(f)) ELSE a

ArchiverReset(a) ==
    IF a.state = "done" THEN Archiver("idle", None) ELSE a

ArchiverFile(a) == IF a.state = "done" THEN a.file ELSE None

\* ------------------------------------------------------------ common state
NoRequest == [handler |-> "startup"]

NoResponse == Response(0, "none")

Clients == 1..2

ArchiveIdle ==
    /\ archiver = Archiver("idle", None)
    /\ writers = 0
    /\ produced = 0
    /\ was = [archiver |-> archiver, writers |-> 0]
    /\ seen = [c \in Clients |-> "none"]

NoTraversal ==
    /\ emitted = << >>
    /\ trav = "none"
    /\ insKind = "none"

\* a request handled against the table: the table before it is kept in pre.
Apply(r, res) ==
    /\ req' = r
    /\ resp' = res.resp
    /\ db' = res.db
    /\ pre' = db

\* ================================================================ SpecPage
\* Pagination over a populated table: load-more requests with arbitrary
\* cursors, then a client walking the listing page by page with the cursor
\* of the last row it was given, an entry being created between two pages.
WordFor(i, f) == [k \in 1..(f + i) |-> IF k <= f THEN "a" ELSE "b"]

PageFreqs == 0..MaxFreq

PageStores ==
    UNION {{{Vocab(i, Some(WordFor(i, f[i])), None, None, Some(f[i])) :
                 i \in 1..n} : f \in [1..n -> PageFreqs]} :
           n \in 0..MaxPageRows}

PageCursors == (0..MaxFreq) \X (1..(MaxPageRows + 1))

PageInit ==
    /\ db \in PageStores
    /\ pre = db
    /\ req = NoRequest
    /\ resp = NoResponse
    /\ NoTraversal
    /\ ArchiveIdle

VocabsRequest(q, trigger, cursor) ==
    [handler |-> "vocabs", q |-> q, trigger |-> trigger, cursor |-> cursor]

CursorOf(row) == Some(<<row.freq[1], row.id>>)

PageFirst ==
    /\ trav = "none"
    /\ \E r \in vocabs(db, None, "none", None) :
          /\ Apply(VocabsRequest(None, "none", None), Result(db, r))
          /\ emitted' = r.vocabs
          /\ trav' = IF r.has_more THEN "more" ELSE "done"
    /\ UNCHANGED <<insKind, archVars>>

PageLoadMore ==
    /\ trav = "more"
    /\ LET cursor == CursorOf(emitted[Len(emitted)])
       IN  \E r \in vocabs(db, None, "load-more", cursor) :
              /\ Apply(VocabsRequest(None, "load-more", cursor), Result(db, r))
              /\ emitted' = emitted \o r.vocabs
              /\ trav' = IF r.has_more THEN "more" ELSE "done"
    /\ UNCHANGED <<insKind, archVars>>

PageProbe ==
    /\ trav = "none"
    /\ \E c \in PageCursors :
          \E r \in vocabs(db, None, "load-more", Some(c)) :
              Apply(VocabsRequest(None, "load-more", Some(c)), Result(db, r))
    /\ UNCHANGED <<pageVars, archVars>>

PageInsert ==
    /\ trav = "more"
    /\ insKind = "none"
    /\ \E f \in PageFreqs :
          LET form == [word |-> Some(WordFor(NextId(db), f)),
                       context |-> Some(<< >>), source |-> Some(<< >>)]
          IN  /\ Apply([handler |-> "vocabs_new_post", form |-> form],
                       vocabs_new_post(db, form))
              /\ insKind' = IF f < emitted[Len(emitted)].freq[1]
                            THEN "behind" ELSE "other"
    /\ UNCHANGED <<emitted, trav, archVars>>

PageNext == PageFirst \/ PageLoadMore \/ PageProbe \/ PageInsert

SpecPage == PageInit /\ [][PageNext]_vars

\* ---------------------------------------------------- pagination properties
NoDuplicates(s) == \A i \in DOMAIN s : \A j \in DOMAIN s : s[i] = s[j] => i = j

ExactlyOnce(s, S) == SeqToSet(s) = S /\ NoDuplicates(s)

\* r1 comes strictly before r2 in (freq descending, id descending)
DescBefore(r1, r2) ==
    \/ r1.freq[1] > r2.freq[1]
    \/ r1.freq[1] = r2.freq[1] /\ r1.id > r2.id

IsPageResponse ==
    /\ req.handler = "vocabs"
    /\ req.q = None
    /\ resp.status = 200

\* C1: over a fixed set of entries, a traversal from the first page along
\* the successive cursors, once it has reached the page with has_more =
\* FALSE, has emitted every entry of the table exactly once.
C1_TraversalExactlyOnce ==
    (trav = "done" /\ insKind = "none") => ExactlyOnce(emitted, db)

\* C2: every page lists its rows in strict (freq descending, id descending)
\* order.
C2_PageStrictOrder ==
    IsPageResponse =>
        \A i \in 1..(Len(resp.vocabs) - 1) :
            DescBefore(resp.vocabs[i], resp.vocabs[i + 1])

\* C3: when an entry of lower freq than the cursor is created between two
\* pages of a traversal, no row is emitted twice, and the finished traversal
\* has emitted every entry, the new one included, exactly once.
C3_InsertBehindCursor ==
    insKind = "behind" =>
        /\ NoDuplicates(emitted)
        /\ trav = "done" => ExactlyOnce(emitted, db)

\* the rows of the table that lie after the cursor of the request
AfterCursor ==
    IF req.cursor = None THEN db
    ELSE {r \in db : \/ r.freq[1] < req.cursor[1][1]
                     \/ r.freq[1] = req.cursor[1][1]
                        /\ r.id < req.cursor[1][2]}

\* the cursor is the (freq, id) of the last entry of (freq desc, id desc),
\* or lies past it
CursorAtOrPastEnd ==
    /\ req.cursor # None
    /\ \A r \in db : \/ r.freq[1] > req.cursor[1][1]
                     \/ r.freq[1] = req.cursor[1][1]
                        /\ r.id >= req.cursor[1][2]

\* C4: a page has at most PAGE_SIZE rows, all of them after the cursor;
\* has_more holds exactly when more than PAGE_SIZE rows lie after the
\* cursor, and otherwise the page holds all of them; an empty table and a
\* cursor at or past the last entry give an empty page without has_more.
C4_PageWindow ==
    IsPageResponse =>
        /\ Len(resp.vocabs) <= PAGE_SIZE
        /\ NoDuplicates(resp.vocabs)
        /\ SeqToSet(resp.vocabs) \subseteq AfterCursor
        /\ resp.has_more <=> Cardinality(AfterCursor) > PAGE_SIZE
        /\ resp.has_more => Len(resp.vocabs) = PAGE_SIZE
        /\ ~resp.has_more => SeqToSet(resp.vocabs) = AfterCursor
        /\ (db = {} \/ CursorAtOrPastEnd) =>
               (resp.vocabs = << >> /\ ~resp.has_more)

C4_Witness ==
    /\ IsPageResponse
    /\ req.cursor # None
    /\ resp.has_more
    /\ Len(resp.vocabs) = PAGE_SIZE
    /\ Cardinality(AfterCursor) = PAGE_SIZE + 1

\* ================================================================ SpecCrud
\* The table starts empty (create_db_and_tables) and is changed by the
\* create, edit and delete handlers, form and JSON.
Words == {<<"a">>, <<"A">>, <<"b">>}

\* the ids a request may name: those the table can hold and one it never holds
CrudIds == 1..(MaxId + 1)

NewForms ==
    [word : {Some(<< >>)} \cup {Some(w) : w \in Words},
     context : {Some(<< >>)},
     source : {Some(<< >>)}]

EditForms ==
    [word : {None} \cup {Some(w) : w \in Words},
     context : {Some(<<"B">>)},
     source : {None},
     freq : {None, Some(MaxFreq + 1)}]

JsonBodies ==
    {None} \cup
    {Some(b) : b \in [word : {None} \cup {Some(w) : w \in Words},
                      context : {None},
                      source : {None}]}

CrudInit ==
    /\ db = {}
    /\ pre = {}
    /\ req = NoRequest
    /\ resp = NoResponse
    /\ NoTraversal
    /\ ArchiveIdle

CrudNewPost ==
    /\ NextId(db) <= MaxId
    /\ \E form \in NewForms :
          Apply([handler |-> "vocabs_new_post", form |-> form],
                vocabs_new_post(db, form))
    /\ UNCHANGED <<pageVars, archVars>>

CrudJsonNew ==
    /\ NextId(db) <= MaxId
    /\ \E body \in JsonBodies :
          Apply([handler |-> "json_vocabs_new", body |-> body],
                json_vocabs_new(db, body))
    /\ UNCHANGED <<pageVars, archVars>>

CrudView ==
    /\ \E vid \in CrudIds :
          Apply([handler |-> "vocabs_view", id |-> vid], vocabs_view(db, vid))
    /\ UNCHANGED <<pageVars, archVars>>

CrudEditGet ==
    /\ \E vid \in CrudIds :
          Apply([handler |-> "vocabs_edit_get", id |-> vid],
                vocabs_edit_get(db, vid))
    /\ UNCHANGED <<pageVars, archVars>>

CrudEditPost ==
    /\ \E vid \in CrudIds : \E form \in EditForms :
          Apply([handler |-> "vocabs_edit_post", id |-> vid, form |-> form],
                vocabs_edit_post(db, vid, form))
    /\ UNCHANGED <<pageVars, archVars>>

CrudDelete ==
    /\ \E vid \in CrudIds : \E trigger \in {"delete-btn", "none"} :
          Apply([handler |-> "vocabs_delete", id |-> vid,
                 trigger |-> trigger],
                vocabs_delete(db, vid, trigger))
    /\ UNCHANGED <<pageVars, archVars>>

CrudJsonView ==
    /\ \E vid \in CrudIds :
          Apply([handler |-> "json_vocabs_view", id |-> vid],
                json_vocabs_view(db, vid))
    /\ UNCHANGED <<pageVars, archVars>>

CrudJsonEdit ==
    /\ \E vid \in CrudIds : \E body \in JsonBodies :
          Apply([handler |-> "json_vocabs_edit", id |-> vid, body |-> body],
                json_vocabs_edit(db, vid, body))
    /\ UNCHANGED <<pageVars, archVars>>

CrudNext ==
    \/ CrudNewPost
    \/ CrudJsonNew
    \/ CrudView
    \/ CrudEditGet
    \/ CrudEditPost
    \/ CrudDelete
    \/ CrudJsonView
    \/ CrudJsonEdit

SpecCrud == CrudInit /\ [][CrudNext]_vars

\* ---------------------------------------------------------- CRUD properties
WordsUnique == \A a \in db : \A b \in db : a.word = b.word => a = b

\* the word the last create or edit request asks for, None if it has none
RequestedWord ==
    IF req.handler \in {"vocabs_new_post", "vocabs_edit_post"}
    THEN Keep(req.form.word)
    ELSE IF req.handler \in {"json_vocabs_new", "json_vocabs_edit"}
              /\ req.body # None
    THEN req.body[1].word
    ELSE None

\* the last request was a create, or an edit of an existing entry, whose
\* word is the word of another entry of the table
WordConflict ==
    /\ RequestedWord # None
    /\ \/ /\ req.handler \in {"vocabs_new_post", "json_vocabs_new"}
          /\ \E r \in pre : r.word = RequestedWord
       \/ /\ req.handler \in {"vocabs_edit_post", "json_vocabs_edit"}
          /\ req.id \in Ids(pre)
          /\ \E r \in pre : r.id # req.id /\ r.word = RequestedWord

Succeeded ==
    \/ resp.status = 303
    \/ resp.status = 200 /\ resp.view = "json"

\* C5: no two entries of the table have the same word, and a create or edit
\* whose word is that of another entry does not succeed and leaves the table
\* exactly as it was.
C5_WordUniqueness ==
    /\ WordsUnique
    /\ WordConflict => (db = pre /\ ~Succeeded)

C5_Witness ==
    /\ req.handler = "vocabs_edit_post"
    /\ WordConflict
    /\ Cardinality(db) = 2
    /\ db = pre
    /\ ~Succeeded

\* C6: the freq of every stored entry is the score of its current word.
C6_FreqConsistent ==
    \A r \in db : r.freq = Some(Zipf(r.word[1]))

\* C7: a view, edit-form, edit, delete, JSON view or JSON update request for
\* an id that is not in the table is answered 404 and leaves the table
\* unchanged.
C7_NotFound ==
    (/\ req.handler \in {"vocabs_view", "vocabs_edit_get", "vocabs_edit_post",
                         "vocabs_delete", "json_vocabs_view",
                         "json_vocabs_edit"}
     /\ req.id \notin Ids(pre))
    => (resp.status = 404 /\ db = pre)

\* ================================================================ SpecBulk
\* DELETE /vocabs with every list of ids up to MaxBulk long, repeated ids
\* and ids that are not in the table included, against a populated table.
BulkStores ==
    UNION {{{Vocab(i, Some(WordFor(i, f[i])), None, None, Some(f[i])) :
                 i \in ids} : f \in [ids -> PageFreqs]} :
           ids \in SUBSET (1..MaxId)}

RECURSIVE SeqsUpTo(_, _)
SeqsUpTo(S, n) ==
    IF n = 0 THEN {<< >>}
    ELSE LET shorter == SeqsUpTo(S, n - 1)
         IN  shorter \cup {Append(s, x) : s \in shorter, x \in S}

BulkLists == SeqsUpTo(CrudIds, MaxBulk)

BulkInit ==
    /\ db \in BulkStores
    /\ pre = db
    /\ req = NoRequest
    /\ resp = NoResponse
    /\ NoTraversal
    /\ ArchiveIdle

BulkDelete ==
    /\ \E vocab_ids \in BulkLists :
          Apply([handler |-> "vocabs_delete_bulk", ids |-> vocab_ids],
                vocabs_delete_bulk(db, vocab_ids))
    /\ UNCHANGED <<pageVars, archVars>>

BulkNext == BulkDelete

SpecBulk == BulkInit /\ [][BulkNext]_vars

\* ----------------------------------------------------- bulk-delete properties
Without(S, ids) == {r \in S : r.id \notin ids}

Before(s, k) == {s[j] : j \in 1..(k - 1)}

First(P) == CHOOSE k \in P : \A j \in P : k <= j

\* C10 as stated: an id counts as missing when it is not in the table at the
\* start of the request.
C10_MissingAtStart ==
    req.handler = "vocabs_delete_bulk" =>
        LET missing == {k \in DOMAIN req.ids : req.ids[k] \notin Ids(pre)}
        IN  IF missing # {}
            THEN /\ db = Without(pre, Before(req.ids, First(missing)))
                 /\ resp.status = 404
            ELSE db = Without(pre, SeqToSet(req.ids))

\* C10 (amended): bulk delete handles the ids in request order, each
\* deletion committed on its own.  An id fails when it is not in the table or
\* repeats an earlier id of the same list; the entries listed before the
\* first failing id are deleted, nothing else is, and the answer is 404.
\* When all ids exist and are distinct, exactly the listed entries are
\* removed, the others are unchanged and the listing is returned.
C10_BulkDeletePrefix ==
    req.handler = "vocabs_delete_bulk" =>
        LET failing == {k \in DOMAIN req.ids :
                           \/ req.ids[k] \notin Ids(pre)
                           \/ req.ids[k] \in Before(req.ids, k)}
        IN  IF failing # {}
            THEN /\ db = Without(pre, Before(req.ids, First(failing)))
                 /\ resp.status = 404
            ELSE /\ db = Without(pre, SeqToSet(req.ids))
                 /\ resp.status = 200

C10_Witness ==
    /\ req.handler = "vocabs_delete_bulk"
    /\ Len(req.ids) = 3
    /\ req.ids[1] \in Ids(pre)
    /\ req.ids[2] \notin Ids(pre)
    /\ req.ids[3] \in Ids(db)
    /\ req.ids[1] \notin Ids(db)
    /\ resp.status = 404

\* ============================================================== SpecRouter
\* GET /vocabs against a small table whose rows differ in word, context and
\* source, for every combination of q, HX-Trigger and cursor parameters.
RouterWords == {<<"a">>, <<"A", "b">>, <<"b">>}

RouterContexts == {None, Some(<<"B">>)}

RouterSources == {None, Some(<<"a">>)}

RouterStores ==
    UNION {{{Vocab(i, Some(w[i]), c[i], s[i], Some(Zipf(w[i]))) : i \in 1..n} :
               w \in {x \in [1..n -> RouterWords] :
                          \A i \in 1..n : \A j \in 1..n :
                              x[i] = x[j] => i = j},
               c \in [1..n -> RouterContexts],
               s \in [1..n -> RouterSources]} :
           n \in 0..MaxId}

RouterQueries ==
    {None, Some(<< >>), Some(<<"a">>), Some(<<"B">>), Some(<<"a", "b">>)}

RouterTriggers == {"none", "search", "load-more"}

\* no cursor parameters, or a cursor at score 1 and any id
RouterCursors == {None} \cup {Some(<<1, i>>) : i \in 1..MaxId}

RouterInit ==
    /\ db \in RouterStores
    /\ pre = db
    /\ req = NoRequest
    /\ resp = NoResponse
    /\ NoTraversal
    /\ ArchiveIdle

RouterVocabs ==
    /\ \E q \in RouterQueries : \E trigger \in RouterTriggers :
       \E cursor \in RouterCursors :
       \E r \in vocabs(db, q, trigger, cursor) :
           Apply(VocabsRequest(q, trigger, cursor), Result(db, r))
    /\ UNCHANGED <<pageVars, archVars>>

RouterNext == RouterVocabs

SpecRouter == RouterInit /\ [][RouterNext]_vars

\* ------------------------------------------------------- router properties
ContainsCI(field, term) ==
    /\ field # None
    /\ \E i \in 0..Len(field[1]) : \E j \in i..Len(field[1]) :
           LowerStr(SubSeq(field[1], i + 1, j)) = LowerStr(term)

Hits(term) ==
    {r \in db : \/ ContainsCI(r.word, term)
                \/ ContainsCI(r.context, term)
                \/ ContainsCI(r.source, term)}

FreqNonIncreasing(s) ==
    \A i \in 1..(Len(s) - 1) : s[i].freq[1] >= s[i + 1].freq[1]

\* C9: when q is present, whatever the trigger and the cursor parameters,
\* the response lists exactly the entries whose word, context or source
\* contains q case-insensitively, by freq descending, with has_more = FALSE;
\* when q is absent a load-more request with a cursor gets get_page's page
\* for that cursor, and a request without the load-more trigger gets
\* get_page's first page.
C9_QueryWins ==
    req.handler = "vocabs" =>
        IF req.q # None
        THEN /\ resp.status = 200
             /\ ExactlyOnce(resp.vocabs, Hits(req.q[1]))
             /\ FreqNonIncreasing(resp.vocabs)
             /\ ~resp.has_more
        ELSE IF req.trigger = "load-more"
        THEN req.cursor # None =>
                /\ resp.vocabs = get_page(db, req.cursor).vocabs
                /\ resp.has_more = get_page(db, req.cursor).has_more
        ELSE /\ resp.vocabs = get_page(db, None).vocabs
             /\ resp.has_more = get_page(db, None).has_more

C9_Witness ==
    /\ req.handler = "vocabs"
    /\ req.q # None
    /\ req.trigger = "load-more"
    /\ req.cursor # None
    /\ \E r \in SeqToSet(resp.vocabs) : r \notin Where(db, req.cursor)
    /\ \E r \in db : r \notin SeqToSet(resp.vocabs)

\* ============================================================= SpecArchive
\* The archive handlers, called by several clients in any order, and the
\* background snapshot write finishing.
ArchiveRequest(handler, c) == [handler |-> handler, client |-> c]

Found == [archiver |-> archiver, writers |-> writers]

ArchiveInit ==
    /\ db = {}
    /\ pre = {}
    /\ req = NoRequest
    /\ resp = NoResponse
    /\ NoTraversal
    /\ ArchiveIdle

start_archive(c) ==
    /\ produced + writers < MaxArchives
    /\ LET ran == ArchiverRun(archiver)
       IN  /\ archiver' = ran.archiver
           /\ writers' = writers + ran.spawn
           /\ seen' = [seen EXCEPT ![c] = ran.archiver.state]
    /\ was' = Found
    /\ req' = ArchiveRequest("start_archive", c)
    /\ resp' = Response(200, "archive_ui")
    /\ UNCHANGED <<produced, tableVars, pageVars>>

archive_status(c) ==
    /\ seen' = [seen EXCEPT ![c] = archiver.state]
    /\ was' = Found
    /\ req' = ArchiveRequest("archive_status", c)
    /\ resp' = Response(200, "archive_ui")
    /\ UNCHANGED <<archiver, writers, produced, tableVars, pageVars>>

\* the status code of the not-ready answer is not fixed by the specification
archive_content(c) ==
    /\ was' = Found
    /\ req' = ArchiveRequest("archive_content", c)
    /\ resp' = IF ArchiverFile(archiver) # None
               THEN [Response(200, "archive.json")
                       EXCEPT !.vocab = ArchiverFile(archiver)]
               ELSE Response(409, "not ready")
    /\ UNCHANGED <<archiver, writers, produced, seen, tableVars, pageVars>>

reset_archive(c) ==
    /\ archiver' = ArchiverReset(archiver)
    /\ seen' = [seen EXCEPT ![c] = ArchiverReset(archiver).state]
    /\ was' = Found
    /\ req' = ArchiveRequest("reset_archive", c)
    /\ resp' = Response(200, "archive_ui")
    /\ UNCHANGED <<writers, produced, tableVars, pageVars>>

SnapshotComplete ==
    /\ writers > 0
    /\ archiver' = ArchiverFinish(archiver, produced + 1)
    /\ writers' = writers - 1
    /\ produced' = produced + 1
    /\ req' = [handler |-> "snapshot_complete"]
    /\ UNCHANGED <<resp, was, seen, tableVars, pageVars>>

ArchiveNext ==
    \/ \E c \in Clients : start_archive(c)
    \/ \E c \in Clients : archive_status(c)
    \/ \E c \in Clients : archive_content(c)
    \/ \E c \in Clients : reset_archive(c)
    \/ SnapshotComplete

SpecArchive == ArchiveInit /\ [][ArchiveNext]_vars

\* ------------------------------------------------------ archive properties
\* C8: at most one snapshot write is in flight, and one is in flight exactly
\* while the job is running; a start request that finds the job idle leaves
\* it running with one write begun; a start request that finds it running
\* or done changes nothing and begins no write; either way the caller is
\* shown the running or done status, not an error.
C8_SingleFlight ==
    /\ writers <= 1
    /\ writers = 1 <=> archiver.state = "running"
    /\ req.handler = "start_archive" =>
          /\ resp.status = 200
          /\ seen[req.client] = archiver.state
          /\ archiver.state \in {"running", "done"}
          /\ was.archiver.state = "idle" =>
                (archiver.state = "running" /\ writers = was.writers + 1)
          /\ was.archiver.state # "idle" =>
                (archiver = was.archiver /\ writers = was.writers)

C8_Witness ==
    /\ req.handler = "start_archive"
    /\ was.archiver.state = "running"
    /\ seen[req.client] = "running"
    /\ \E c \in Clients : c # req.client /\ seen[c] = "running"
    /\ writers = 1

====
